---- MODULE Spec2Model ----
(***************************************************************************)
(* ducksync: a dynamic-DNS client.  The binary (src/main.rs) loads a       *)
(* mode-600 YAML config, and for every domain entry discovers the public   *)
(* IP (IPv6 first, IPv4 as fallback) and sends one update to DuckDNS.      *)
(* The library module src/config.rs holds a second loader, Config::load.   *)
(*                                                                         *)
(* A string is modelled as a Text: a sequence of fragments (each fragment  *)
(* a TLA+ string), so that format!, join and starts_with are computed.     *)
(***************************************************************************)
EXTENDS Integers, Sequences, FiniteSets, TLC

\* Largest number of domain entries of a config file.
MaxDomains == 2

----------------------------------------------------------------------------
(* Texts *)

\* str::starts_with
StartsWith(text, prefix) ==
    /\ Len(text) >= Len(prefix)
    /\ SubSeq(text, 1, Len(prefix)) = prefix

\* [String]::join(sep)
RECURSIVE Join(_, _)
Join(texts, sep) ==
    IF Len(texts) = 0 THEN <<>>
    ELSE IF Len(texts) = 1 THEN texts[1]
    ELSE texts[1] \o <<sep>> \o Join(Tail(texts), sep)

\* format!("{:o}", n)
RECURSIVE Octal(_)
Octal(n) ==
    IF n < 8 THEN <<ToString(n)>>
    ELSE Octal(n \div 8) \o <<ToString(n % 8)>>

----------------------------------------------------------------------------
(* The config document: Config, Domain, ConfigIp *)

NoIp     == [tag |-> "None",   lit |-> <<>>]
PublicIp == [tag |-> "Public", lit |-> <<>>]
FixedV4  == [tag |-> "IPv4",   lit |-> <<"10.0.0.1">>]
FixedV6  == [tag |-> "IPv6",   lit |-> <<"fd00::1">>]

ConfigIp == {NoIp, PublicIp, FixedV4, FixedV6}

Domain(i, ip) ==
    [name |-> <<"host" \o ToString(i)>>, token |-> <<"token" \o ToString(i)>>, ip |-> ip]

\* Every config of at most MaxDomains entries, in file order.
Config ==
    UNION { { [i \in 1..n |-> Domain(i, ips[i])] : ips \in [1..n -> ConfigIp] }
            : n \in 0..MaxDomains }

\* #[derive(Debug)] on ConfigIp, Option<ConfigIp> and Domain.
DebugConfigIp(ip) ==
    IF ip.tag = "None" THEN <<"None">>
    ELSE IF ip.tag = "Public" THEN <<"Some(Public)">>
    ELSE <<"Some(", ip.tag, "(\"">> \o ip.lit \o <<"\"))">>

DebugDomain(d) ==
    <<"Domain { name: \"">> \o d.name \o <<"\", token: \"">> \o d.token
        \o <<"\", ip: ">> \o DebugConfigIp(d.ip) \o <<" }">>

----------------------------------------------------------------------------
(* The file system and the command line the program runs against *)

CustomPath == <<"/tmp/ducksync.yaml">>
UserPath   == <<"$HOME", "/.config/ducksync/config.yaml">>
SystemPath == <<"/etc/ducksync/config.yaml">>

\* st_mode values of the config file: the file-type bits are set as well.
\* 0o100600, 0o100644 (readable by others), 0o100400 (stricter than 600)
FileModes == {33152, 33188, 33024}

\* mode() & 0o777
PermMask == 512
\* 0o600
SecureMode == 384

PermissionBits(mode) == mode % PermMask

BadYaml == [valid |-> FALSE, domains |-> <<>>]
Contents == {BadYaml} \cup { [valid |-> TRUE, domains |-> c] : c \in Config }

Environments ==
    { e \in [ home     : {"none", "utf8", "raw"},
              exists   : SUBSET {CustomPath, UserPath, SystemPath},
              mode     : FileModes,
              readable : BOOLEAN,
              content  : Contents ] :
        \* without a home directory there is no user path to look at
        /\ (e.home = "none" => UserPath \notin e.exists)
        \* no file, no file attributes
        /\ (e.exists = {} => e.mode = 33152 /\ e.readable /\ e.content = BadYaml) }

\* args.config: Option<String>
NoPath == <<>>
Args == {NoPath, CustomPath}

Pending == [state |-> "pending", kind |-> "", msg |-> <<>>, domains |-> <<>>]
Ok(domains) == [state |-> "ok", kind |-> "", msg |-> <<>>, domains |-> domains]
Err(kind, msg) == [state |-> "err", kind |-> kind, msg |-> msg, domains |-> <<>>]
Panicked == [state |-> "panic", kind |-> "", msg |-> <<>>, domains |-> <<>>]

----------------------------------------------------------------------------
(* The network: the IP echo endpoints and the DuckDNS update endpoint *)

IPIFY_API4 == <<"https://api.ipify.org?format=text">>
IPIFY_API6 == <<"https://api6.ipify.org?format=text">>
DUCKDNS_URL == <<"https://www.duckdns.org/update">>

\* What a request can come back with: a transport error or a body.
SendErr == [tag |-> "send_err", body |-> <<"connection refused">>]
Body(b) == [tag |-> "body", body |-> b]

\* Bodies of the echo endpoints: an IPv4 literal, an IPv6 literal (upper-case
\* hex), and a literal followed by a line feed.
ProbeBodies == { <<"203.0.113.7">>, <<"2001:DB8::1">>, <<"203.0.113.7", "\n">> }
ProbeResponses == {SendErr} \cup { Body(b) : b \in ProbeBodies }

\* Bodies of the update endpoint.
UpdateBodies == { <<"O", "K">>, <<"K", "O">> }
UpdateResponses == {SendErr} \cup { Body(b) : b \in UpdateBodies }

\* The address literals str::parse::<IpAddr>() accepts among the bodies, with
\* the family and the Display form of the parsed address.
IpLiterals ==
    { [src |-> <<"203.0.113.7">>, family |-> "V4", display |-> <<"203.0.113.7">>],
      [src |-> <<"2001:DB8::1">>, family |-> "V6", display |-> <<"2001:db8::1">>] }

NoAddr == [ok |-> FALSE, family |-> "", display |-> <<>>]

\* public_ip.parse::<IpAddr>(): the whole input must be one literal.
ParseIpAddr(text) ==
    IF \E l \in IpLiterals : l.src = text
    THEN LET lit == CHOOSE l \in IpLiterals : l.src = text
         IN  [ok |-> TRUE, family |-> lit.family, display |-> lit.display]
    ELSE NoAddr

\* resolve_public_ip() parsing the body as an Ipv6Addr, as copied from the
\* IPv6 function.
ResolvePublicIpAsV6(resp) ==
    IF resp.tag = "body" /\ ParseIpAddr(resp.body).family = "V6"
    THEN ParseIpAddr(resp.body) ELSE NoAddr

\* resolve_public_ip(): the result for the response of its one request.
ResolvePublicIp(resp) ==
    IF resp.tag = "body" THEN ParseIpAddr(resp.body) ELSE NoAddr

\* resolve_public_ipv6(): the result for the response of its one request.
ResolvePublicIpv6(resp) ==
    IF resp.tag = "body" THEN ParseIpAddr(resp.body) ELSE NoAddr

\* Option<String>, Option<bool>
None == [some |-> FALSE, val |-> <<>>]
Some(v) == [some |-> TRUE, val |-> v]

BoolToString(b) == IF b THEN <<"true">> ELSE <<"false">>

\* HashMap::insert
Insert(m, k, v) == [x \in DOMAIN m \cup {k} |-> IF x = k THEN v ELSE m[x]]

EmptyMap == [x \in {} |-> <<>>]

\* The query parameters DuckDns::update sends.
UpdateParams(domains, token, ip, ipv6, verbose, clear) ==
    LET p0 == Insert(Insert(EmptyMap, "domains", Join(domains, ",")), "token", token)
        p1 == IF ip.some THEN Insert(p0, "ip", ip.val) ELSE p0
        p2 == IF ipv6.some THEN Insert(p1, "ipv6", ipv6.val) ELSE p1
        p3 == IF verbose.some THEN Insert(p2, "verbose", BoolToString(verbose.val)) ELSE p2
    IN  IF clear.some THEN Insert(p3, "clear", BoolToString(clear.val)) ELSE p3

\* Result<(), String>
OkUnit == [ok |-> TRUE, msg |-> <<>>]
ErrString(msg) == [ok |-> FALSE, msg |-> msg]

\* DuckDns::update: the result for the response of its one request.
UpdateResult(resp) ==
    IF resp.tag = "send_err"
    THEN ErrString(<<"Error sending request: ">> \o resp.body)
    ELSE IF StartsWith(resp.body, <<"O", "K">>)
         THEN OkUnit
         ELSE ErrString(<<"Update failed: ">> \o resp.body)

\* format!("{:?}", res) for res: Result<(), String>
DebugResult(res) ==
    IF res.ok THEN <<"Ok(())">> ELSE <<"Err(\"">> \o res.msg \o <<"\")">>

----------------------------------------------------------------------------
(* State *)

VARIABLES
    entry,      \* "main": the binary's main(); "lib": a call of Config::load
    args,       \* args.config / the config_path argument
    env,        \* the home directory and the config file the run finds
    pc,         \* where the run is
    path,       \* the resolved config path
    buf,        \* the file content read into memory
    fsLog,      \* the file-system operations done so far, in order
    result,     \* what load_config / Config::load returned
    idx,        \* position of the for loop in config.domains
    ip,         \* the address discovered for the current entry
    net,        \* the outbound requests made so far, with their responses
    out,        \* stdout, line by line
    err,        \* stderr, line by line
    exitCode    \* the process exit status, -1 while running

vars == <<entry, args, env, pc, path, buf, fsLog, result, idx, ip, net, out, err, exitCode>>

Line(i, text) == [entry |-> i, text |-> text]
FsOp(op, p) == [op |-> op, path |-> p]
Request(kind, url, params, i, resp) ==
    [kind |-> kind, url |-> url, params |-> params, entry |-> i, resp |-> resp]

Init ==
    /\ entry \in {"main", "lib"}
    /\ args \in Args
    /\ env \in Environments
    \* the custom path is the one the argument names
    /\ args = NoPath => CustomPath \notin env.exists
    /\ pc = "start"
    /\ path = NoPath
    /\ buf = BadYaml
    /\ fsLog = <<>>
    /\ result = Pending
    /\ idx = 0
    /\ ip = NoAddr
    /\ net = <<>>
    /\ out = <<>>
    /\ err = <<>>
    /\ exitCode = -1

----------------------------------------------------------------------------
(* Loading the config: load_config (main.rs) and Config::load (config.rs) *)

Resolved(p, looked) == [ok |-> TRUE, path |-> p, msg |-> <<>>, looked |-> looked]
Unresolved(msg, looked) == [ok |-> FALSE, path |-> NoPath, msg |-> msg, looked |-> looked]

\* load_config, up to the choice of config_path.
LoadConfigPath(a, e) ==
    IF e.home = "none" THEN Unresolved(<<"Home directory not found">>, <<>>)
    ELSE IF a # NoPath THEN Resolved(a, <<>>)
    ELSE IF UserPath \in e.exists THEN Resolved(UserPath, <<UserPath>>)
    ELSE IF SystemPath \in e.exists THEN Resolved(SystemPath, <<UserPath, SystemPath>>)
    ELSE Unresolved(<<"Config file not found in either user or system path">>,
                    <<UserPath, SystemPath>>)

\* Config::get_config_path
GetConfigPath(a, e) ==
    IF a # NoPath THEN Resolved(a, <<>>)
    ELSE IF e.home = "none" THEN Unresolved(<<"Home directory not found">>, <<>>)
    ELSE IF UserPath \in e.exists THEN Resolved(UserPath, <<UserPath>>)
    ELSE IF SystemPath \in e.exists THEN Resolved(SystemPath, <<UserPath, SystemPath>>)
    ELSE Unresolved(<<"Config file not found in user or system path">>,
                    <<UserPath, SystemPath>>)

\* fs::metadata(path) fails when there is no such file.
NoSuchFile == Err("NotFound", <<"No such file or directory (os error 2)">>)

\* check_secure_file_mode looking at the owner's bits only (mode & 0o700).
CheckSecureFileModeOwnerBits(p, e) ==
    IF p \notin e.exists THEN NoSuchFile
    ELSE IF PermissionBits(e.mode) \div 64 # SecureMode \div 64
    THEN Err("PermissionDenied", <<"Config file ">> \o p \o <<" must have mode 600">>)
    ELSE Ok(<<>>)

\* check_secure_file_mode of main.rs
CheckSecureFileMode(p, e) ==
    IF p \notin e.exists THEN NoSuchFile
    ELSE IF PermissionBits(e.mode) # SecureMode
    THEN Err("PermissionDenied", <<"Config file ">> \o p \o <<" must have mode 600">>)
    ELSE Ok(<<>>)

\* Config::check_secure_file_mode of config.rs
ConfigCheckSecureFileMode(p, e) ==
    IF p \notin e.exists THEN NoSuchFile
    ELSE IF PermissionBits(e.mode) # SecureMode
    THEN Err("PermissionDenied",
             <<"Config file '">> \o p \o <<"' must have mode 600, found ">>
                 \o Octal(PermissionBits(e.mode)))
    ELSE Ok(<<>>)

\* serde_yaml::from_str(&content).map_err(..)
FromStr(content) ==
    IF content.valid THEN Ok(content.domains)
    ELSE Err("InvalidData", <<"yaml: invalid document">>)

Exists(looked) == [i \in 1..Len(looked) |-> FsOp("exists", looked[i])]

\* load_config, main.rs 82-109: choose the path or fail.
LoadConfigResolve ==
    /\ entry = "main"
    /\ pc = "start"
    /\ LET r == LoadConfigPath(args, env)
       IN  /\ fsLog' = fsLog \o Exists(r.looked)
           /\ IF r.ok
              THEN /\ path' = r.path
                   /\ pc' = "check"
                   /\ UNCHANGED result
              ELSE /\ result' = Err("NotFound", r.msg)
                   /\ pc' = "match"
                   /\ UNCHANGED path
    /\ UNCHANGED <<entry, args, env, buf, idx, ip, net, out, err, exitCode>>

\* main.rs 111: config_path.to_str().unwrap() panics on a path that is not
\* UTF-8, which only the path under the home directory can be.
PathPanics == path = UserPath /\ env.home = "raw"

\* load_config, main.rs 111: the mode check, `?` returning its error.
LoadConfigCheck ==
    /\ entry = "main"
    /\ pc = "check"
    /\ IF PathPanics
       THEN /\ result' = Panicked
            /\ pc' = "done"
            /\ exitCode' = 101
            /\ err' = Append(err, Line(0, <<"thread 'main' panicked">>))
            /\ UNCHANGED fsLog
       ELSE LET r == CheckSecureFileMode(path, env)
            IN  /\ fsLog' = Append(fsLog, FsOp("metadata", path))
                /\ IF r.state = "ok"
                   THEN pc' = "read" /\ UNCHANGED result
                   ELSE pc' = "match" /\ result' = r
                /\ UNCHANGED <<err, exitCode>>
    /\ UNCHANGED <<entry, args, env, path, buf, idx, ip, net, out>>

\* load_config, main.rs 113-118: read the file, then parse what was read.
LoadConfigRead ==
    /\ entry = "main"
    /\ pc = "read"
    /\ fsLog' = Append(fsLog, FsOp("read", path))
    /\ IF env.readable
       THEN /\ buf' = env.content
            /\ result' = FromStr(env.content)
       ELSE /\ result' = Err("PermissionDenied", <<"Permission denied (os error 13)">>)
            /\ UNCHANGED buf
    /\ pc' = "match"
    /\ UNCHANGED <<entry, args, env, path, idx, ip, net, out, err, exitCode>>

\* Config::load, config.rs 32: get_config_path(config_path).await?
ConfigLoadGetPath ==
    /\ entry = "lib"
    /\ pc = "start"
    /\ LET r == GetConfigPath(args, env)
       IN  /\ fsLog' = fsLog \o Exists(r.looked)
           /\ IF r.ok
              THEN /\ path' = r.path
                   /\ pc' = "check"
                   /\ UNCHANGED result
              ELSE /\ result' = Err("NotFound", r.msg)
                   /\ pc' = "returned"
                   /\ UNCHANGED path
    /\ UNCHANGED <<entry, args, env, buf, idx, ip, net, out, err, exitCode>>

\* Config::load, config.rs 33: check_secure_file_mode(&path).await?
ConfigLoadCheck ==
    /\ entry = "lib"
    /\ pc = "check"
    /\ LET r == ConfigCheckSecureFileMode(path, env)
       IN  /\ fsLog' = Append(fsLog, FsOp("metadata", path))
           /\ IF r.state = "ok"
              THEN pc' = "read" /\ UNCHANGED result
              ELSE pc' = "returned" /\ result' = r
    /\ UNCHANGED <<entry, args, env, path, buf, idx, ip, net, out, err, exitCode>>

\* Config::load, config.rs 34: read_config_file(&path).await
ConfigLoadRead ==
    /\ entry = "lib"
    /\ pc = "read"
    /\ fsLog' = Append(fsLog, FsOp("read", path))
    /\ IF env.readable
       THEN /\ buf' = env.content
            /\ result' = FromStr(env.content)
       ELSE /\ result' = Err("PermissionDenied", <<"Permission denied (os error 13)">>)
            /\ UNCHANGED buf
    /\ pc' = "returned"
    /\ UNCHANGED <<entry, args, env, path, idx, ip, net, out, err, exitCode>>

----------------------------------------------------------------------------
(* main *)

Domains == result.domains

\* main.rs 228-229: the config is loaded; the loop starts.
MainLoaded ==
    /\ entry = "main"
    /\ pc = "match"
    /\ result.state = "ok"
    /\ out' = Append(out, Line(0, <<"Successfully loaded config:">>))
    /\ idx' = 1
    /\ pc' = "loop"
    /\ UNCHANGED <<entry, args, env, path, buf, fsLog, result, ip, net, err, exitCode>>

\* The Err arm going on to discover the address instead of returning.
MainLoadFailedThenProbes ==
    /\ entry = "main"
    /\ pc = "match"
    /\ result.state = "err"
    /\ err' = Append(err, Line(0, <<"Error loading config: ">> \o result.msg))
    /\ \E resp \in ProbeResponses :
         net' = Append(net, Request("probe6", IPIFY_API6, EmptyMap, 0, resp))
    /\ exitCode' = 0
    /\ pc' = "done"
    /\ UNCHANGED <<entry, args, env, path, buf, fsLog, result, idx, ip, out>>

\* main.rs 258: the load failed; report it and return from main.
MainLoadFailed ==
    /\ entry = "main"
    /\ pc = "match"
    /\ result.state = "err"
    /\ err' = Append(err, Line(0, <<"Error loading config: ">> \o result.msg))
    /\ exitCode' = 0
    /\ pc' = "done"
    /\ UNCHANGED <<entry, args, env, path, buf, fsLog, result, idx, ip, net, out>>

\* The loop body entered for every entry that names an ip (`Some(_)`).
ForDomainAnyIp ==
    /\ pc = "loop"
    /\ idx <= Len(Domains)
    /\ out' = Append(out, Line(idx, DebugDomain(Domains[idx])))
    /\ IF Domains[idx].ip # NoIp
       THEN pc' = "probe6" /\ UNCHANGED idx
       ELSE pc' = "loop" /\ idx' = idx + 1
    /\ UNCHANGED <<entry, args, env, path, buf, fsLog, result, ip, net, err, exitCode>>

\* The loop body entered for an entry without ip as for `ip: public`.
ForDomainDefaultPublic ==
    /\ pc = "loop"
    /\ idx <= Len(Domains)
    /\ out' = Append(out, Line(idx, DebugDomain(Domains[idx])))
    /\ IF Domains[idx].ip \in {PublicIp, NoIp}
       THEN pc' = "probe6" /\ UNCHANGED idx
       ELSE pc' = "loop" /\ idx' = idx + 1
    /\ UNCHANGED <<entry, args, env, path, buf, fsLog, result, ip, net, err, exitCode>>

\* main.rs 231-234: the next entry; only `ip: public` has a loop body.
ForDomain ==
    /\ pc = "loop"
    /\ idx <= Len(Domains)
    /\ out' = Append(out, Line(idx, DebugDomain(Domains[idx])))
    /\ IF Domains[idx].ip = PublicIp
       THEN pc' = "probe6" /\ UNCHANGED idx
       ELSE pc' = "loop" /\ idx' = idx + 1
    /\ UNCHANGED <<entry, args, env, path, buf, fsLog, result, ip, net, err, exitCode>>

FoundLine(i, addr) ==
    Line(i, <<"IP found for domain ">> \o Domains[i].name \o <<" => ">> \o addr.display)

\* The IPv6 probe with the IPv4 probe made in every case, its result winning.
ProbeV6ThenAlwaysV4 ==
    /\ pc = "probe6"
    /\ \E resp \in ProbeResponses :
         LET r == ResolvePublicIpv6(resp)
         IN  /\ net' = Append(net, Request("probe6", IPIFY_API6, EmptyMap, idx, resp))
             /\ ip' = r
    /\ pc' = "probe4"
    /\ UNCHANGED <<entry, args, env, path, buf, fsLog, result, idx, out, err, exitCode>>

\* main.rs 235-236 (and 244 on success): the IPv6 probe.
ProbeV6 ==
    /\ pc = "probe6"
    /\ \E resp \in ProbeResponses :
         LET r == ResolvePublicIpv6(resp)
         IN  /\ net' = Append(net, Request("probe6", IPIFY_API6, EmptyMap, idx, resp))
             /\ IF r.ok
                THEN /\ ip' = r
                     /\ out' = Append(out, FoundLine(idx, r))
                     /\ pc' = "update"
                ELSE /\ pc' = "probe4"
                     /\ UNCHANGED <<ip, out>>
    /\ UNCHANGED <<entry, args, env, path, buf, fsLog, result, idx, err, exitCode>>

\* The IPv4 probe with `return` in place of `continue` when it fails too.
ProbeV4AbortsOnFailure ==
    /\ pc = "probe4"
    /\ \E resp \in ProbeResponses :
         LET r == ResolvePublicIp(resp)
         IN  /\ net' = Append(net, Request("probe4", IPIFY_API4, EmptyMap, idx, resp))
             /\ IF r.ok
                THEN /\ ip' = r
                     /\ out' = Append(out, FoundLine(idx, r))
                     /\ pc' = "update"
                     /\ UNCHANGED <<idx, exitCode>>
                ELSE /\ pc' = "done"
                     /\ exitCode' = 0
                     /\ UNCHANGED <<idx, ip, out>>
    /\ UNCHANGED <<entry, args, env, path, buf, fsLog, result, err>>

\* The IPv4 probe with the discovery of the entry tried once more when both
\* probes have failed.
ProbeV4RetriesOnce ==
    /\ pc = "probe4"
    /\ \E resp \in ProbeResponses :
         LET r == ResolvePublicIp(resp)
             first == \A k \in DOMAIN net : ~(net[k].kind = "probe4" /\ net[k].entry = idx)
         IN  /\ net' = Append(net, Request("probe4", IPIFY_API4, EmptyMap, idx, resp))
             /\ IF r.ok
                THEN /\ ip' = r
                     /\ out' = Append(out, FoundLine(idx, r))
                     /\ pc' = "update"
                     /\ UNCHANGED idx
                ELSE IF first
                THEN /\ pc' = "probe6"
                     /\ UNCHANGED <<idx, ip, out>>
                ELSE /\ pc' = "loop"
                     /\ idx' = idx + 1
                     /\ UNCHANGED <<ip, out>>
    /\ UNCHANGED <<entry, args, env, path, buf, fsLog, result, err, exitCode>>

\* main.rs 237-242 (and 244 on success): the IPv4 probe; `continue` when it
\* fails too.
ProbeV4 ==
    /\ pc = "probe4"
    /\ \E resp \in ProbeResponses :
         LET r == ResolvePublicIp(resp)
         IN  /\ net' = Append(net, Request("probe4", IPIFY_API4, EmptyMap, idx, resp))
             /\ IF r.ok
                THEN /\ ip' = r
                     /\ out' = Append(out, FoundLine(idx, r))
                     /\ pc' = "update"
                     /\ UNCHANGED idx
                ELSE /\ pc' = "loop"
                     /\ idx' = idx + 1
                     /\ UNCHANGED <<ip, out>>
    /\ UNCHANGED <<entry, args, env, path, buf, fsLog, result, err, exitCode>>

\* The update with a failed result ending the run (`?` on the result).
UpdateAbortsOnFailure ==
    /\ pc = "update"
    /\ \E resp \in UpdateResponses :
         LET d == Domains[idx]
             params == UpdateParams(<<d.name>>, d.token, Some(ip.display), None, None, None)
         IN  /\ net' = Append(net, Request("update", DUCKDNS_URL, params, idx, resp))
             /\ out' = Append(out, Line(idx, DebugResult(UpdateResult(resp))))
             /\ IF UpdateResult(resp).ok
                THEN pc' = "loop" /\ UNCHANGED exitCode
                ELSE pc' = "done" /\ exitCode' = 1
    /\ ip' = NoAddr
    /\ idx' = idx + 1
    /\ UNCHANGED <<entry, args, env, path, buf, fsLog, result, err>>

\* The update with an IPv6 address handed over as the `ipv6` argument.
UpdateByFamily ==
    /\ pc = "update"
    /\ \E resp \in UpdateResponses :
         LET d == Domains[idx]
             params == IF ip.family = "V6"
                       THEN UpdateParams(<<d.name>>, d.token, None, Some(ip.display), None, None)
                       ELSE UpdateParams(<<d.name>>, d.token, Some(ip.display), None, None, None)
         IN  /\ net' = Append(net, Request("update", DUCKDNS_URL, params, idx, resp))
             /\ out' = Append(out, Line(idx, DebugResult(UpdateResult(resp))))
    /\ ip' = NoAddr
    /\ idx' = idx + 1
    /\ pc' = "loop"
    /\ UNCHANGED <<entry, args, env, path, buf, fsLog, result, err, exitCode>>

\* main.rs 245-254: DuckDns::update for the one domain, its result printed.
Update ==
    /\ pc = "update"
    /\ \E resp \in UpdateResponses :
         LET d == Domains[idx]
             params == UpdateParams(<<d.name>>, d.token, Some(ip.display), None, None, None)
         IN  /\ net' = Append(net, Request("update", DUCKDNS_URL, params, idx, resp))
             /\ out' = Append(out, Line(idx, DebugResult(UpdateResult(resp))))
    /\ ip' = NoAddr
    /\ idx' = idx + 1
    /\ pc' = "loop"
    /\ UNCHANGED <<entry, args, env, path, buf, fsLog, result, err, exitCode>>

\* main.rs 256-260: the loop is over and main returns.
MainReturns ==
    /\ pc = "loop"
    /\ idx > Len(Domains)
    /\ exitCode' = 0
    /\ pc' = "done"
    /\ UNCHANGED <<entry, args, env, path, buf, fsLog, result, idx, ip, net, out, err>>

Next ==
    \/ LoadConfigResolve
    \/ LoadConfigCheck
    \/ LoadConfigRead
    \/ ConfigLoadGetPath
    \/ ConfigLoadCheck
    \/ ConfigLoadRead
    \/ MainLoaded
    \/ MainLoadFailed
    \/ ForDomain
    \/ ProbeV6
    \/ ProbeV4
    \/ Update
    \/ MainReturns

Spec == Init /\ [][Next]_vars

----------------------------------------------------------------------------
(* The request functions called on their own: DuckDns::update and          *)
(* DuckDns::update_txt of duckdns.rs and of main.rs, Ipify::ipv4 and        *)
(* Ipify::ipv6 of ipify.rs.  Here entry names the function called, args its *)
(* arguments, net the requests it made, and result (for the updates) or ip  *)
(* (for the probes) what it returned.                                       *)

\* Longest list of domain names handed to one update call.
MaxNames == 2

\* Bodies of the update endpoint: "OK", "OK\nupdated", "KO", "", "O", "NOK".
ApiUpdateBodies ==
    { <<"O", "K">>, <<"O", "K", "\n", "updated">>, <<"K", "O">>, <<>>, <<"O">>,
      <<"N", "O", "K">> }
ApiUpdateResponses == {SendErr} \cup { Body(b) : b \in ApiUpdateBodies }

DomainLists == UNION { [1..n -> {<<"host1">>, <<"host2">>}] : n \in 1..MaxNames }
OptBool == {None, Some(TRUE), Some(FALSE)}

UpdateArgs ==
    [ domains : DomainLists, token : {<<"test-token">>, <<"bad-token">>},
      ip : {None, Some(<<"1.2.3.4">>)}, ipv6 : {None, Some(<<"fd00::1">>)},
      verbose : OptBool, clear : OptBool, txt : {<<>>} ]

UpdateTxtArgs ==
    [ domains : DomainLists, token : {<<"test-token">>, <<"bad-token">>},
      ip : {None}, ipv6 : {None},
      verbose : OptBool, clear : OptBool, txt : {<<"challenge">>} ]

NoArgs == <<>>

UpdateFunctions ==
    {"DuckDns::update", "DuckDns::update_txt", "main::DuckDns::update",
     "main::DuckDns::update_txt"}

ApiCalls ==
    { [fn |-> f, args |-> a] : f \in {"DuckDns::update", "main::DuckDns::update"},
                               a \in UpdateArgs }
    \cup { [fn |-> f, args |-> a] : f \in {"DuckDns::update_txt", "main::DuckDns::update_txt"},
                                     a \in UpdateTxtArgs }
    \cup { [fn |-> f, args |-> NoArgs] : f \in {"Ipify::ipv4", "Ipify::ipv6"} }

\* No config file is involved in these calls.
NoFiles ==
    [home |-> "none", exists |-> {}, mode |-> 33152, readable |-> TRUE, content |-> BadYaml]

InitApi ==
    /\ \E c \in ApiCalls : entry = c.fn /\ args = c.args
    /\ env = NoFiles
    /\ pc = "start"
    /\ path = NoPath
    /\ buf = BadYaml
    /\ fsLog = <<>>
    /\ result = Pending
    /\ idx = 0
    /\ ip = NoAddr
    /\ net = <<>>
    /\ out = <<>>
    /\ err = <<>>
    /\ exitCode = -1

\* Result<String, String>
OkString(text) == [ok |-> TRUE, msg |-> text]

\* <reqwest::Client as DuckDnsClient>::send_request
SendRequest(resp) ==
    IF resp.tag = "send_err"
    THEN ErrString(<<"Error sending request: ">> \o resp.body)
    ELSE OkString(resp.body)

\* DuckDns::build_params
BuildParams(domains, token, ipArg, ipv6, verbose, clear) ==
    LET p0 == Insert(Insert(EmptyMap, "domains", Join(domains, ",")), "token", token)
        p1 == IF ipArg.some THEN Insert(p0, "ip", ipArg.val) ELSE p0
        p2 == IF ipv6.some THEN Insert(p1, "ipv6", ipv6.val) ELSE p1
        p3 == IF verbose.some THEN Insert(p2, "verbose", BoolToString(verbose.val)) ELSE p2
    IN  IF clear.some THEN Insert(p3, "clear", BoolToString(clear.val)) ELSE p3

\* DuckDns::build_txt_params
BuildTxtParams(domains, token, txt, verbose, clear) ==
    LET p0 == Insert(Insert(EmptyMap, "domains", Join(domains, ",")), "token", token)
        p1 == Insert(p0, "txt", txt)
        p2 == IF verbose.some THEN Insert(p1, "verbose", BoolToString(verbose.val)) ELSE p1
    IN  IF clear.some THEN Insert(p2, "clear", BoolToString(clear.val)) ELSE p2

\* DuckDns::update taking only the body "OK" itself as a success.
DuckDnsUpdateResultExact(sent) ==
    IF ~sent.ok THEN sent
    ELSE IF sent.msg = <<"O", "K">> THEN OkUnit
    ELSE ErrString(<<"Update failed: ">> \o sent.msg)

\* DuckDns::update of duckdns.rs on what send_request returned: `?`, then the
\* prefix test.
DuckDnsUpdateResult(sent) ==
    IF ~sent.ok THEN sent
    ELSE IF StartsWith(sent.msg, <<"O", "K">>) THEN OkUnit
    ELSE ErrString(<<"Update failed: ">> \o sent.msg)

\* DuckDns::update_txt of duckdns.rs on what send_request returned.
DuckDnsUpdateTxtResult(sent) ==
    IF ~sent.ok THEN sent
    ELSE IF StartsWith(sent.msg, <<"O", "K">>) THEN OkUnit
    ELSE ErrString(<<"Update failed: ">> \o sent.msg)

\* The query parameters DuckDns::update_txt of main.rs sends.
UpdateTxtParams(domains, token, txt, verbose, clear) ==
    LET p0 == Insert(Insert(EmptyMap, "domains", Join(domains, ",")), "token", token)
        p1 == Insert(p0, "txt", txt)
        p2 == IF verbose.some THEN Insert(p1, "verbose", BoolToString(verbose.val)) ELSE p1
    IN  IF clear.some THEN Insert(p2, "clear", BoolToString(clear.val)) ELSE p2

\* DuckDns::update_txt of main.rs: the result for the response of its request.
UpdateTxtResult(resp) ==
    IF resp.tag = "send_err"
    THEN ErrString(<<"Error sending request: ">> \o resp.body)
    ELSE IF StartsWith(resp.body, <<"O", "K">>)
         THEN OkUnit
         ELSE ErrString(<<"Update failed: ">> \o resp.body)

\* <reqwest::Client as IpFetcher>::fetch_ip
FetchIp(resp) ==
    IF resp.tag = "send_err" THEN ErrString(resp.body) ELSE OkString(resp.body)

\* Ipify::get on what fetch_ip returned: `?`, then parse::<IpAddr>().
IpifyGet(fetched) ==
    IF fetched.ok THEN ParseIpAddr(fetched.msg) ELSE NoAddr

\* DuckDns::update sending the request again when the first one failed.
DuckDnsUpdateRetries ==
    /\ entry = "DuckDns::update"
    /\ pc = "start"
    /\ \E resp \in ApiUpdateResponses :
         LET params == BuildParams(args.domains, args.token, args.ip, args.ipv6,
                                   args.verbose, args.clear)
             first == Request("update", DUCKDNS_URL, params, 0, resp)
         IN  IF DuckDnsUpdateResult(SendRequest(resp)).ok
             THEN /\ net' = Append(net, first)
                  /\ result' = OkUnit
             ELSE \E again \in ApiUpdateResponses :
                     /\ net' = net \o <<first, Request("update", DUCKDNS_URL, params, 0, again)>>
                     /\ result' = DuckDnsUpdateResult(SendRequest(again))
    /\ pc' = "returned"
    /\ UNCHANGED <<entry, args, env, path, buf, fsLog, idx, ip, out, err, exitCode>>

\* DuckDns::update, duckdns.rs 46-63
DuckDnsUpdate ==
    /\ entry = "DuckDns::update"
    /\ pc = "start"
    /\ \E resp \in ApiUpdateResponses :
         LET params == BuildParams(args.domains, args.token, args.ip, args.ipv6,
                                   args.verbose, args.clear)
         IN  /\ net' = Append(net, Request("update", DUCKDNS_URL, params, 0, resp))
             /\ result' = DuckDnsUpdateResult(SendRequest(resp))
    /\ pc' = "returned"
    /\ UNCHANGED <<entry, args, env, path, buf, fsLog, idx, ip, out, err, exitCode>>

\* DuckDns::update_txt, duckdns.rs 65-81
DuckDnsUpdateTxt ==
    /\ entry = "DuckDns::update_txt"
    /\ pc = "start"
    /\ \E resp \in ApiUpdateResponses :
         LET params == BuildTxtParams(args.domains, args.token, args.txt,
                                      args.verbose, args.clear)
         IN  /\ net' = Append(net, Request("update_txt", DUCKDNS_URL, params, 0, resp))
             /\ result' = DuckDnsUpdateTxtResult(SendRequest(resp))
    /\ pc' = "returned"
    /\ UNCHANGED <<entry, args, env, path, buf, fsLog, idx, ip, out, err, exitCode>>

\* DuckDns::update, main.rs 128-176
MainDuckDnsUpdate ==
    /\ entry = "main::DuckDns::update"
    /\ pc = "start"
    /\ \E resp \in ApiUpdateResponses :
         LET params == UpdateParams(args.domains, args.token, args.ip, args.ipv6,
                                    args.verbose, args.clear)
         IN  /\ net' = Append(net, Request("update", DUCKDNS_URL, params, 0, resp))
             /\ result' = UpdateResult(resp)
    /\ pc' = "returned"
    /\ UNCHANGED <<entry, args, env, path, buf, fsLog, idx, ip, out, err, exitCode>>

\* DuckDns::update_txt, main.rs 180-220
MainDuckDnsUpdateTxt ==
    /\ entry = "main::DuckDns::update_txt"
    /\ pc = "start"
    /\ \E resp \in ApiUpdateResponses :
         LET params == UpdateTxtParams(args.domains, args.token, args.txt,
                                       args.verbose, args.clear)
         IN  /\ net' = Append(net, Request("update_txt", DUCKDNS_URL, params, 0, resp))
             /\ result' = UpdateTxtResult(resp)
    /\ pc' = "returned"
    /\ UNCHANGED <<entry, args, env, path, buf, fsLog, idx, ip, out, err, exitCode>>

\* Ipify::ipv4, ipify.rs 40-42
IpifyIpv4 ==
    /\ entry = "Ipify::ipv4"
    /\ pc = "start"
    /\ \E resp \in ProbeResponses :
         /\ net' = Append(net, Request("probe4", IPIFY_API4, EmptyMap, 0, resp))
         /\ ip' = IpifyGet(FetchIp(resp))
    /\ pc' = "returned"
    /\ UNCHANGED <<entry, args, env, path, buf, fsLog, result, idx, out, err, exitCode>>

\* Ipify::ipv6, ipify.rs 44-46
IpifyIpv6 ==
    /\ entry = "Ipify::ipv6"
    /\ pc = "start"
    /\ \E resp \in ProbeResponses :
         /\ net' = Append(net, Request("probe6", IPIFY_API6, EmptyMap, 0, resp))
         /\ ip' = IpifyGet(FetchIp(resp))
    /\ pc' = "returned"
    /\ UNCHANGED <<entry, args, env, path, buf, fsLog, result, idx, out, err, exitCode>>

NextApi ==
    \/ DuckDnsUpdate
    \/ DuckDnsUpdateTxt
    \/ MainDuckDnsUpdate
    \/ MainDuckDnsUpdateTxt
    \/ IpifyIpv4
    \/ IpifyIpv6

SpecApi == InitApi /\ [][NextApi]_vars

\* The run of Spec with its steps taken as long as one is possible: the
\* runtime drives main to its end, every request returning.
FairSpec == Spec /\ WF_vars(Next)

----------------------------------------------------------------------------
(* What the claims speak of *)

Loaded == result.state = "ok"
LoadFailed == result.state \in {"err", "panic"}
Finished == pc \in {"done", "returned"}

\* The requests of one kind made for entry i, as positions of net.
Calls(kind, i) == { k \in DOMAIN net : net[k].kind = kind /\ net[k].entry = i }

\* A probe response that carries an address; an update response that is a success.
Succeeded(resp) == resp.tag = "body" /\ \E l \in IpLiterals : l.src = resp.body
Accepted(resp) == resp.tag = "body" /\ StartsWith(resp.body, <<"O", "K">>)

Discovered(i) == \E k \in Calls("probe6", i) \cup Calls("probe4", i) : Succeeded(net[k].resp)
Visited(i) == \E k \in DOMAIN out : out[k] = Line(i, DebugDomain(Domains[i]))
Reported(i) ==
    \E k \in Calls("update", i) :
        \E n \in DOMAIN out : out[n] = Line(i, DebugResult(UpdateResult(net[k].resp)))

\* Entries are taken in file order: neither the output nor the requests ever
\* go back to an earlier entry.
InFileOrder ==
    /\ \A a \in 1..(Len(out) - 1) : out[a].entry <= out[a + 1].entry
    /\ \A a \in 1..(Len(net) - 1) : net[a].entry <= net[a + 1].entry

\* Every entry after i got its turn: it was visited, and when an address was
\* discovered for it its update was sent and the result printed.
LaterEntriesProcessed(i) ==
    \A j \in (i + 1)..Len(Domains) :
        /\ Visited(j)
        /\ Discovered(j) => Calls("update", j) # {} /\ Reported(j)

ReadsOf == { k \in DOMAIN fsLog : fsLog[k].op = "read" }
InsecureFile == path # NoPath /\ path \in env.exists /\ PermissionBits(env.mode) # SecureMode

\* C1: a config file whose permission bits are not 0o600 is never read: every
\* read of the content comes after a mode check of the same path that passed,
\* and once the check has looked at a file with other bits the load ends with
\* PermissionDenied, nothing read, nothing returned.
C1_InsecureFileNeverRead ==
    /\ \A k \in ReadsOf :
         /\ PermissionBits(env.mode) = SecureMode
         /\ \E j \in 1..(k - 1) : fsLog[j] = FsOp("metadata", fsLog[k].path)
    /\ InsecureFile => ReadsOf = {} /\ buf = BadYaml /\ ~Loaded
    /\ InsecureFile /\ (\E k \in DOMAIN fsLog : fsLog[k].op = "metadata")
         => result.state = "err" /\ result.kind = "PermissionDenied"

C1_Witness ==
    /\ InsecureFile
    /\ Finished
    /\ result.kind = "PermissionDenied"
    /\ fsLog # <<>> /\ fsLog[Len(fsLog)] = FsOp("metadata", path)

\* C2: when loading the config has failed, the run has made no outbound
\* request, neither a probe nor an update.
C2_NoNetworkAfterLoadFailure == LoadFailed => net = <<>>

C2_Witness == entry = "main" /\ pc = "done" /\ LoadFailed /\ err # <<>>

\* C3: a failed update of entry i does not stop the batch: the loop moves on to
\* entry i + 1, the run ends only after the last entry, in file order, and every
\* later entry is visited, its update sent and its result printed.
C3_FailedUpdateDoesNotStopBatch ==
    /\ InFileOrder
    /\ \A k \in DOMAIN net :
         net[k].kind = "update" /\ ~Accepted(net[k].resp) =>
            /\ idx > net[k].entry
            /\ idx <= Len(Domains) => pc # "done"
            /\ pc = "done" => LaterEntriesProcessed(net[k].entry)

C3_Witness ==
    /\ pc = "done"
    /\ \E k, n \in DOMAIN net :
         /\ net[k].kind = "update" /\ ~Accepted(net[k].resp)
         /\ net[n].kind = "update" /\ net[n].entry > net[k].entry
         /\ Reported(net[n].entry)

\* C4: an entry whose IPv6 and IPv4 probes both failed gets no update request,
\* and the batch goes on: the run ends only after the last entry and every later
\* entry is visited and, when an address is discovered for it, updated.
C4_FailedDiscoverySkipsEntryOnly ==
    \A i \in 1..Len(Domains) :
        (/\ \E k \in Calls("probe6", i) : ~Succeeded(net[k].resp)
         /\ \E k \in Calls("probe4", i) : ~Succeeded(net[k].resp)) =>
            /\ Calls("update", i) = {}
            /\ idx > i
            /\ idx <= Len(Domains) => pc # "done"
            /\ pc = "done" => LaterEntriesProcessed(i)

C4_Witness ==
    /\ pc = "done"
    /\ \E i \in 1..Len(Domains) :
         /\ \E k \in Calls("probe4", i) : ~Succeeded(net[k].resp)
         /\ Calls("update", i) = {}
         /\ \E j \in (i + 1)..Len(Domains) : Calls("update", j) # {}

\* C5: every entry with a fixed address (IPv4 or IPv6 literal) gets one update
\* request for its single domain that carries the literal as the address, and
\* no discovery probe.
C5_FixedAddressIsSent ==
    pc = "done" /\ Loaded =>
        \A i \in 1..Len(Domains) :
            Domains[i].ip.tag \in {"IPv4", "IPv6"} =>
                /\ Calls("probe6", i) = {} /\ Calls("probe4", i) = {}
                /\ \E k \in Calls("update", i) :
                     /\ net[k].params["domains"] = Domains[i].name
                     /\ \E key \in {"ip", "ipv6"} \cap DOMAIN net[k].params :
                          net[k].params[key] = Domains[i].ip.lit

PastV6(i) == idx > i \/ (idx = i /\ pc \in {"probe4", "update"})
PastDiscovery(i) == idx > i \/ (idx = i /\ pc = "update")

\* C6: the ip selection of an entry decides its probes: none for an entry that
\* is not `public`; for a `public` entry one IPv6 probe, then one IPv4 probe
\* exactly when the IPv6 probe failed; never a second probe of either kind.
C6_SelectionDeterminesProbes ==
    \A i \in 1..Len(Domains) :
        LET p6 == Calls("probe6", i)
            p4 == Calls("probe4", i)
        IN  /\ Domains[i].ip # PublicIp => p6 = {} /\ p4 = {}
            /\ Cardinality(p6) <= 1 /\ Cardinality(p4) <= 1
            /\ \A k \in p4 : \E j \in p6 : j < k /\ ~Succeeded(net[j].resp)
            /\ Domains[i].ip = PublicIp /\ PastV6(i) => Cardinality(p6) = 1
            /\ Domains[i].ip = PublicIp /\ PastDiscovery(i) =>
                 (p4 # {} <=> \E j \in p6 : ~Succeeded(net[j].resp))

C6_Witness ==
    /\ pc = "done"
    /\ \E i, j \in 1..Len(Domains) :
         /\ Domains[i].ip = PublicIp
         /\ Cardinality(Calls("probe6", i)) = 1 /\ Cardinality(Calls("probe4", i)) = 1
         /\ Domains[j].ip = FixedV4 /\ Visited(j)
         /\ Calls("probe6", j) = {} /\ Calls("probe4", j) = {}

\* C7: when the IPv6 probe of an entry succeeds, its result is the address of
\* the entry: no IPv4 probe is made, and the update carries that address.
C7_V6ResultPreferred ==
    \A i \in 1..Len(Domains) :
        \A k \in Calls("probe6", i) :
            Succeeded(net[k].resp) =>
                /\ Calls("probe4", i) = {}
                /\ idx = i => pc = "update" /\ ip = ParseIpAddr(net[k].resp.body)
                /\ idx > i => Calls("update", i) # {}
                /\ \A u \in Calls("update", i) :
                     net[u].params["ip"] = ParseIpAddr(net[k].resp.body).display

C7_Witness ==
    \E i \in 1..Len(Domains) :
        /\ \E k \in Calls("probe6", i) : net[k].resp = Body(<<"2001:DB8::1">>)
        /\ \E u \in Calls("update", i) : net[u].params["ip"] = <<"2001:db8::1">>

\* C8: when the IPv6 probe fails and the IPv4 probe succeeds, the IPv4 result is
\* the address of the entry, carried by its update; and a `public` entry is left
\* without an address only when both probes have failed.
C8_V4ResultOnFallback ==
    \A i \in 1..Len(Domains) :
        /\ \A k \in Calls("probe4", i) :
             Succeeded(net[k].resp) =>
                /\ \E j \in Calls("probe6", i) : j < k /\ ~Succeeded(net[j].resp)
                /\ idx = i => pc = "update" /\ ip = ParseIpAddr(net[k].resp.body)
                /\ idx > i => Calls("update", i) # {}
                /\ \A u \in Calls("update", i) :
                     net[u].params["ip"] = ParseIpAddr(net[k].resp.body).display
        /\ Domains[i].ip = PublicIp /\ idx > i /\ Calls("update", i) = {} =>
                /\ \E j \in Calls("probe6", i) : ~Succeeded(net[j].resp)
                /\ \E j \in Calls("probe4", i) : ~Succeeded(net[j].resp)

C8_Witness ==
    \E i \in 1..Len(Domains) :
        /\ \E k \in Calls("probe6", i) : ~Succeeded(net[k].resp)
        /\ \E k \in Calls("probe4", i) : net[k].resp = Body(<<"203.0.113.7">>)
        /\ \E u \in Calls("update", i) : net[u].params["ip"] = <<"203.0.113.7">>

\* C9: the exit code is 0 only if the config was loaded and the update of every
\* entry succeeded.
C9_ExitCodeZeroOnlyOnFullSuccess ==
    pc = "done" /\ exitCode = 0 =>
        /\ Loaded
        /\ \A i \in 1..Len(Domains) : \E k \in Calls("update", i) : Accepted(net[k].resp)

\* The text holds sub as a run of consecutive fragments.
Contains(text, sub) ==
    \E i \in 1..(Len(text) - Len(sub) + 1) : SubSeq(text, i, i + Len(sub) - 1) = sub

\* C10: no token of the config appears in a line of stdout or stderr.
C10_TokenNeverPrinted ==
    \A i \in DOMAIN env.content.domains :
        /\ \A k \in DOMAIN out : ~Contains(out[k].text, env.content.domains[i].token)
        /\ \A k \in DOMAIN err : ~Contains(err[k].text, env.content.domains[i].token)

\* The response of the one request of a returned call.
Response == net[Len(net)].resp

\* C11: update and update_txt decide by the prefix of the response body alone:
\* the call succeeds exactly when the body starts with "OK", and for any other
\* body it fails with "Update failed: " followed by the body as it came.
C11_PrefixDecidesUpdate ==
    pc = "returned" /\ entry \in UpdateFunctions /\ net # <<>> /\ Response.tag = "body" =>
        /\ result.ok <=>
             (Len(Response.body) >= 2 /\ Response.body[1] = "O" /\ Response.body[2] = "K")
        /\ ~result.ok => result.msg = <<"Update failed: ">> \o Response.body

C11_Witness ==
    /\ pc = "returned"
    /\ entry = "DuckDns::update"
    /\ net # <<>>
    /\ Response = Body(<<"O", "K", "\n", "updated">>)
    /\ result.ok

\* C12: the config path is chosen by strict priority: the explicit path
\* argument whenever one is given, whatever the home directory and the other
\* files are; otherwise the user file when it exists; otherwise the system
\* file when it exists; otherwise loading fails with the not-found error.
C12_StrictPathPriority ==
    pc # "start" =>
        IF args # NoPath THEN path = args
        ELSE IF UserPath \in env.exists THEN path = UserPath
        ELSE IF SystemPath \in env.exists THEN path = SystemPath
        ELSE result.state = "err" /\ result.kind = "NotFound"

\* The lines of out that report an outcome for entry i: the Debug form of an
\* update result, Ok(()) or Err("..").
OutcomeLines(i) ==
    { k \in DOMAIN out :
        /\ out[k].entry = i
        /\ \/ out[k].text = <<"Ok(())">>
           \/ StartsWith(out[k].text, <<"Err(\"">>) }

\* The lines of err written for entry i.
ErrorLines(i) == { k \in DOMAIN err : err[k].entry = i }

\* C13: a run that processed the batch has reported exactly one outcome for
\* every entry of the config: no entry ends the run without one.
C13_EveryEntryReportedOnce ==
    pc = "done" /\ Loaded =>
        \A i \in 1..Len(Domains) :
            Cardinality(OutcomeLines(i)) + Cardinality(ErrorLines(i)) = 1

\* C14: Ipify::ipv4 returns only addresses of the IPv4 family and Ipify::ipv6
\* only addresses of the IPv6 family: a body that is a literal of the other
\* family, or no literal, makes the call fail.
C14_FetchKeepsFamily ==
    pc = "returned" =>
        /\ entry = "Ipify::ipv4" /\ ip.ok => ip.family = "V4"
        /\ entry = "Ipify::ipv6" /\ ip.ok => ip.family = "V6"

\* C15: every call of update or update_txt makes exactly one request to the
\* provider, whether it comes back as a success, a failure body or a transport
\* error: none before the call, one after it, and no second one.
C15_OneRequestPerUpdate ==
    entry \in UpdateFunctions =>
        /\ pc = "start" => net = <<>>
        /\ pc = "returned" => Len(net) = 1 /\ net[1].url = DUCKDNS_URL

C15_Witness ==
    /\ entry = "DuckDns::update"
    /\ pc = "returned"
    /\ Len(net) = 1
    /\ net[1].resp = SendErr
    /\ ~result.ok

\* The update requests of the batch, as positions of net.
Updates == { k \in DOMAIN net : net[k].kind = "update" }

\* C16: in the batch, the update request for a discovered address carries that
\* address in the `ip` query parameter and never sets `ipv6`, whichever family
\* the address belongs to.
C16_DiscoveredAddressSentAsIp ==
    \A u \in Updates :
        /\ "ip" \in DOMAIN net[u].params
        /\ "ipv6" \notin DOMAIN net[u].params
        /\ \E k \in Calls("probe6", net[u].entry) \cup Calls("probe4", net[u].entry) :
             /\ k < u
             /\ Succeeded(net[k].resp)
             /\ net[u].params["ip"] = ParseIpAddr(net[k].resp.body).display

C16_Witness ==
    \E u \in Updates :
        /\ \E k \in Calls("probe6", net[u].entry) :
             ParseIpAddr(net[k].resp.body).family = "V6"
        /\ net[u].params["ip"] = <<"2001:db8::1">>
        /\ "ipv6" \notin DOMAIN net[u].params

\* C17: an entry without an ip field causes no request at all, neither a probe
\* nor an update, and the run moves on: the loop goes past the entry and every
\* later entry gets its turn.
C17_UnsetEntryMakesNoRequest ==
    \A i \in 1..Len(Domains) :
        Domains[i].ip = NoIp =>
            /\ \A k \in DOMAIN net : net[k].entry # i
            /\ Visited(i) => idx > i
            /\ idx <= Len(Domains) => pc # "done"
            /\ pc = "done" => Visited(i) /\ LaterEntriesProcessed(i)

C17_Witness ==
    /\ pc = "done"
    /\ \E i \in 1..Len(Domains) :
         /\ Domains[i].ip = NoIp
         /\ Visited(i)
         /\ \E j \in (i + 1)..Len(Domains) : Calls("update", j) # {}

\* The lines of out that print entry i.
VisitLines(i) == { k \in DOMAIN out : out[k] = Line(i, DebugDomain(Domains[i])) }

\* Every entry was taken once and in file order, with at most two probes and
\* at most one update for it.
OncePerEntry ==
    /\ InFileOrder
    /\ \A i \in 1..Len(Domains) :
         /\ Cardinality(VisitLines(i)) = 1
         /\ Cardinality(Calls("probe6", i) \cup Calls("probe4", i)) <= 2
         /\ Cardinality(Calls("update", i)) <= 1

\* C18: with every request returning, a run over a config ends, and it ends
\* having visited every entry exactly once in file order, with at most two
\* probes and at most one update for each entry.
C18_RunTerminates == <>(Finished /\ (pc = "done" /\ Loaded => OncePerEntry))

C18_Witness ==
    /\ pc = "done"
    /\ Loaded
    /\ Len(Domains) = 2
    /\ \A i \in 1..Len(Domains) : Cardinality(VisitLines(i)) = 1
    /\ Cardinality(Calls("probe6", 1) \cup Calls("probe4", 1)) = 2
    /\ Cardinality(Calls("update", 2)) = 1

====
